---- MODULE Spec2Model ----
(***************************************************************************)
(* Model of the two-path target-discovery orchestrator.                    *)
(*                                                                         *)
(*   - the evidence fusion and tiered ranking of integrator.py             *)
(*     (ValidationAgent.validate_and_rank / attach_literature_evidence);   *)
(*   - the evidence producers of explorers.py;                             *)
(*   - the LangGraph workflow of graph/nodes.py + graph/workflow.py;       *)
(*   - the DiscoveryGraph of agent_graph.py and its dispatcher bridge.py.  *)
(*                                                                         *)
(* Encodings.  Gene symbols are positive integers (their order is the      *)
(* order of the symbols).  Scores are integers in thousandths (8.0 is      *)
(* 8000).  A Python dict is a sequence of [gene, data] pairs in insertion  *)
(* order.  A text is a sequence of integers; the empty sequence is a       *)
(* falsy value (None, "" or an empty list).  An optional value is <<>>     *)
(* (absent) or <<v>>.                                                      *)
(***************************************************************************)
EXTENDS Integers, Sequences, FiniteSets, TLC

\* ------------------------------------------------------------------ bounds
\* Gene ids of the orchestrated runs: 1..MaxGenes (more than TopN).
MaxGenes == 22
\* Gene ids of the fusion harness: 1..MaxHGenes.
MaxHGenes == 2
\* Records of one input of the fusion harness (both result maps together).
MaxRecs == 3
\* Number of times the harness applies attach_literature_evidence.
MaxAttach == 2
MaxKeys == 2          \* keys a reducer update may name
MaxErrs == 2          \* errors entries one node return may carry

\* ------------------------------------------------------- program constants
\* ranked[:20] in merge_node / node_synthesize.
TopN == 20
\* get_top_genes(limit=30, ...) in run_path_omics_driven.
OmicsLimit == 30
\* threshold default 6.0 (thousandths).
DefaultThreshold == 6000
\* tier bonuses and the fixed Tier-3 score (thousandths).
ConsensusBonus == 5000
DataDrivenBonus == 2000
TheoryOnlyScore == 1000
\* literature bonuses and the external-DB bonus (thousandths).
StrongBonus == 3000
MediumBonus == 1000
ExternalBonus == 1000

SrcTD == "Top-Down (KG-Driven)"
SrcBU == "Bottom-Up (Omics-Driven)"
Tier1 == "Tier 1: Consensus"
Tier2 == "Tier 2: Data-Driven"
Tier3 == "Tier 3: Theory-Only"

\* The text "N/A" (three characters; 0 is a character no narrative uses).
KgNA == <<0, 0, 0>>

\* ------------------------------------------------------------ small helpers
Range(s) == {s[i] : i \in 1..Len(s)}

Contains(s, x) == \E i \in 1..Len(s) : s[i] = x

Take(s, n) == SubSeq(s, 1, IF Len(s) < n THEN Len(s) ELSE n)

\* Index of the pair of gene g in a dict, 0 when g is no key.
KeyIndex(d, g) ==
    IF \E i \in 1..Len(d) : d[i].gene = g
    THEN CHOOSE i \in 1..Len(d) :
             d[i].gene = g /\ \A j \in 1..(i - 1) : d[j].gene # g
    ELSE 0

HasKey(d, g) == KeyIndex(d, g) # 0

Keys(d) == {d[i].gene : i \in 1..Len(d)}

KeySeq(d) == [i \in 1..Len(d) |-> d[i].gene]

\* d[g] = v: an existing key keeps its position, a new key goes last.
DictPut(d, g, v) ==
    IF HasKey(d, g)
    THEN [d EXCEPT ![KeyIndex(d, g)] = [gene |-> g, data |-> v]]
    ELSE Append(d, [gene |-> g, data |-> v])

DictGet(d, g) == d[KeyIndex(d, g)].data

\* round(x, 2) on thousandths (no input of the model ends in 5).
Round2(x) == ((x + 5) \div 10) * 10

\* -------------------------------------------------- integrator.py: fusion
\* The entry created at the first sighting of a gene.
NewEntry(gene) ==
    [gene |-> gene,
     evidence_sources |-> {},
     omics |-> 0,
     kg_raw_facts |-> <<>>,
     omics_full_summary |-> <<>>,
     lit_raw_abstracts |-> <<>>,
     kg_hypothesis |-> KgNA,
     omics_data |-> <<>>]

\* for fact in raw_facts: if fact not in facts: facts.append(fact)
RECURSIVE AppendNew(_, _)
AppendNew(facts, raw) ==
    IF raw = <<>> THEN facts
    ELSE AppendNew(IF Contains(facts, Head(raw)) THEN facts
                   ELSE Append(facts, Head(raw)),
                   Tail(raw))

\* Step 2 of register: the narrative, then the raw facts.
MergeKg(entry, data) ==
    LET e1 == IF data.kg_narrative # <<>>
                 /\ (entry.kg_hypothesis = KgNA
                     \/ Len(data.kg_narrative) > Len(entry.kg_hypothesis))
              THEN [entry EXCEPT !.kg_hypothesis = data.kg_narrative]
              ELSE entry
    IN  IF data.kg_raw = <<>> THEN e1
        ELSE IF e1.kg_raw_facts # <<>>
        THEN [e1 EXCEPT !.kg_raw_facts = AppendNew(e1.kg_raw_facts, data.kg_raw)]
        ELSE [e1 EXCEPT !.kg_raw_facts = data.kg_raw]

\* Mutant: the first score seen is kept.
BestOmicsFirstWins(old, new) == IF old = 0 THEN new ELSE old

\* if om_data.get('omics_score', 0) > entry['scores']['omics']: replace
BestOmics(old, new) == IF new > old THEN new ELSE old

\* Step 3 of register: the omics signal.
MergeOmics(entry, data) ==
    IF data.omics_signal = <<>> THEN entry
    ELSE LET om == data.omics_signal[1]
             e1 == [entry EXCEPT !.omics = BestOmics(entry.omics, om.omics_score)]
             e2 == IF e1.omics_data = <<>>
                   THEN [e1 EXCEPT !.omics_data =
                            <<[log2fc |-> om.log2fc, p_value |-> <<>>]>>]
                   ELSE e1
         IN  IF om.ai_summary # <<>>
             THEN [e2 EXCEPT !.omics_full_summary = om.ai_summary]
             ELSE e2

\* Mutant: no record is rejected.
IsRejectedNever(data) == FALSE

\* if data.get('is_known', False): return
IsRejected(data) == data.is_known

\* register(gene, source, data) on the candidates dict.
Register(candidates, gene, source, data) ==
    IF IsRejected(data) THEN candidates
    ELSE LET c1 == IF HasKey(candidates, gene) THEN candidates
                   ELSE Append(candidates, [gene |-> gene, data |-> NewEntry(gene)])
             e0 == DictGet(c1, gene)
             e1 == [e0 EXCEPT !.evidence_sources = @ \cup {source}]
         IN  DictPut(c1, gene, MergeOmics(MergeKg(e1, data), data))

\* for g, d in results.items(): register(g, source, d)
\* results is a dict, so the loop registers each gene once, and register
\* reads and writes candidates[gene] only: the entries already present are
\* registered in place, the new ones follow in the order of results.
RegisterAll(candidates, results, source) ==
    LET accepted == SelectSeq(results, LAMBDA r : ~IsRejected(r.data))
        fresh == SelectSeq(accepted, LAMBDA r : ~HasKey(candidates, r.gene))
        present == [i \in 1..Len(candidates) |->
                       IF HasKey(accepted, candidates[i].gene)
                       THEN Register(<<candidates[i]>>, candidates[i].gene, source,
                                     DictGet(accepted, candidates[i].gene))[1]
                       ELSE candidates[i]]
        added == [i \in 1..Len(fresh) |->
                     Register(<<>>, fresh[i].gene, source, fresh[i].data)[1]]
    IN  present \o added

\* Mutant: the bottom-up test comes first.
TierOfBottomUpFirst(sources) ==
    IF SrcBU \in sources THEN Tier2
    ELSE IF SrcTD \in sources THEN Tier3
    ELSE Tier1

TierOf(sources) ==
    IF SrcTD \in sources /\ SrcBU \in sources THEN Tier1
    ELSE IF SrcBU \in sources THEN Tier2
    ELSE Tier3

\* Mutant: the Tier-3 score adds the numeric score.
FinalScoreAddsBase(sources, base_score) ==
    IF SrcTD \in sources /\ SrcBU \in sources THEN base_score + ConsensusBonus
    ELSE IF SrcBU \in sources THEN base_score + DataDrivenBonus
    ELSE base_score + TheoryOnlyScore

FinalScore(sources, base_score) ==
    IF SrcTD \in sources /\ SrcBU \in sources THEN base_score + ConsensusBonus
    ELSE IF SrcBU \in sources THEN base_score + DataDrivenBonus
    ELSE TheoryOnlyScore

\* One element of ranked_results.
RankedItem(info) ==
    [Gene |-> info.gene,
     Tier |-> TierOf(info.evidence_sources),
     Score |-> Round2(FinalScore(info.evidence_sources, info.omics)),
     Omics_Log2FC |-> IF info.omics_data # <<>> THEN info.omics_data[1].log2fc
                      ELSE <<>>,
     KG_Hypothesis |-> info.kg_hypothesis,
     Raw_Evidence |-> [kg_raw_facts |-> info.kg_raw_facts,
                       omics_full_summary |-> info.omics_full_summary,
                       lit_raw_abstracts |-> info.lit_raw_abstracts],
     Literature_Evidence |-> <<>>,
     External_DB_Score |-> <<>>,
     raw_data |-> [evidence_sources |-> info.evidence_sources,
                   omics |-> info.omics,
                   omics_data |-> info.omics_data]]

\* list.sort(key=Score, reverse=True): stable, equal scores keep their order.
HigherScore(a, b) == a.Score > b.Score

SortByScore(items) == SortSeq(items, HigherScore)

\* Steps 5 of validate_and_rank on a filled candidates dict.
RankCandidates(candidates) ==
    SortByScore([i \in 1..Len(candidates) |-> RankedItem(candidates[i].data)])

ValidateAndRank(top_down_results, bottom_up_results) ==
    RankCandidates(RegisterAll(RegisterAll(<<>>, top_down_results, SrcTD),
                               bottom_up_results, SrcBU))

\* Mutant: every verdict earns the medium bonus.
SupportBonusFlat(level) == MediumBonus

\* bonus of a verdict: 'high' or 'strong' in the lower-cased support level,
\* else 'medium' in it.  A support level is the set of these words it contains.
SupportBonus(level) ==
    IF "high" \in level \/ "strong" \in level THEN StrongBonus
    ELSE IF "medium" \in level THEN MediumBonus
    ELSE 0

\* The loop body of attach_literature_evidence for one item.
AttachOne(item, lit_results) ==
    IF HasKey(lit_results, item.Gene)
    THEN LET lit_data == DictGet(lit_results, item.Gene)
             i1 == [item EXCEPT !.Score = @ + SupportBonus(lit_data.level),
                                !.Literature_Evidence = <<lit_data.level>>]
         IN  IF lit_data.snippets # <<>>
             THEN [i1 EXCEPT !.Raw_Evidence.lit_raw_abstracts = lit_data.snippets]
             ELSE i1
    ELSE item

AttachLiteratureEvidence(ranked_list, lit_results) ==
    SortByScore([i \in 1..Len(ranked_list) |-> AttachOne(ranked_list[i], lit_results)])

\* ----------------------------------------------- the collaborators' world
\* The omics table holds the genes 1..n; scores in thousandths, 0..10000.
OmicsScoreOf(g) ==
    IF g = 1 THEN 8123
    ELSE IF g = 2 THEN 8000
    ELSE IF g = 3 THEN 4000
    ELSE 7000

\* Log2FC is not monotone in the gene id.
Log2fcOf(g) == IF g = 4 THEN 100 ELSE 1 + g

FoundSig(g) ==
    <<[omics_score |-> OmicsScoreOf(g), log2fc |-> <<Log2fcOf(g)>>,
       ai_summary |-> <<g>>]>>

\* {"found_in_omics": False, "omics_score": 0, ...}: no log2fc, no ai_summary.
NotFoundSig == <<[omics_score |-> 0, log2fc |-> <<>>, ai_summary |-> <<>>]>>

\* OmicsDataRetriever.get_top_genes: rows with AI_Score >= threshold, sorted
\* by (AI_Score, Log2FC) descending, the first `limit` of them.
GetTopGenes(n, limit, threshold) ==
    LET rows == SelectSeq([g \in 1..n |-> [Gene |-> g,
                               Score |-> OmicsScoreOf(g) * 100 + Log2fcOf(g)]],
                          LAMBDA r : OmicsScoreOf(r.Gene) >= threshold)
        top == Take(SortByScore(rows), limit)
    IN  [i \in 1..Len(top) |-> top[i].Gene]

\* OmicsDataRetriever.check_gene_list for one gene.
CheckGene(n, g) == IF g \in 1..n THEN FoundSig(g) ELSE NotFoundSig

\* KGTool validation mode: the hypothesis and the raw facts of a gene.
StatusFact(is_known) == IF is_known THEN 1 ELSE 2

KgAnalysis(g) == <<1, g>>

KgValidationFacts(g, known) == <<StatusFact(g \in known), 10 + g>>

\* KGTool discovery mode: the evidence text and the raw facts of a target.
KgEvidence(g) == <<2, g, g>>

KgDiscoveryFacts(g) == <<100 + g>>

\* ---------------------------------------------- explorers.py: the producers
\* run_path_omics_driven: top genes, known targets skipped.
PathARecords(gene_list, known) ==
    LET kept == SelectSeq(gene_list, LAMBDA gene : gene \notin known)
    IN  [i \in 1..Len(kept) |->
            [gene |-> kept[i],
             data |-> [omics_signal |-> FoundSig(kept[i]),
                       kg_narrative |-> KgAnalysis(kept[i]),
                       kg_raw |-> KgValidationFacts(kept[i], known),
                       is_known |-> FALSE]]]

RunPathOmicsDriven(n, known, threshold) ==
    PathARecords(GetTopGenes(n, OmicsLimit, threshold), known)

\* run_path_kg_driven: the KG's target list, omics looked up per target.
RECURSIVE PathBRecords(_, _, _)
PathBRecords(candidate_list, n, acc) ==
    IF candidate_list = <<>> THEN acc
    ELSE LET gene == Head(candidate_list)
         IN  PathBRecords(Tail(candidate_list), n,
                 DictPut(acc, gene,
                         [omics_signal |-> CheckGene(n, gene),
                          kg_narrative |-> KgEvidence(gene),
                          kg_raw |-> KgDiscoveryFacts(gene),
                          is_known |-> FALSE]))

RunPathKgDriven(targets, n) == PathBRecords(targets, n, <<>>)

\* run_validation_deep_diven: every target, is_known reported as the KG says.
RECURSIVE ValidationRecords(_, _, _, _)
ValidationRecords(target_list, n, known, acc) ==
    IF target_list = <<>> THEN acc
    ELSE LET gene == Head(target_list)
         IN  ValidationRecords(Tail(target_list), n, known,
                 DictPut(acc, gene,
                         [omics_signal |-> CheckGene(n, gene),
                          kg_narrative |-> KgAnalysis(gene),
                          kg_raw |-> KgValidationFacts(gene, known),
                          is_known |-> gene \in known]))

RunValidationDeepDiven(target_list, n, known) ==
    ValidationRecords(target_list, n, known, <<>>)

\* ------------------------------------------------------------------ state
VARIABLES
    engine,              \* "graph" (graph/workflow.py), "agent" (agent_graph.py)
                         \* or "harness"
    \* the collaborators' world of one run
    w_n,                 \* the omics table holds the genes 1..w_n
    w_known,             \* genes the knowledge graph associates with the disease
    w_targets,           \* target_list_for_omics of the KG's discovery mode
    \* GraphState
    mode,
    plan_steps,
    omics_results,
    kg_results,
    opentargets_results,
    merged_candidates,
    top_candidates,
    literature_results,
    final_report,
    errors,
    \* control of the compiled graph
    pc,                  \* node -> "wait", "ready", "construct", "call", "done"
    status,              \* "running", "reported", "aborted"
    \* module-level singletons of graph/nodes.py: number of constructions
    built,
    \* AgentState and the control of DiscoveryGraph
    plan,
    execution_trace,
    final_candidates,
    a_pc,                \* "plan", "execute", "synthesize", "done"
    a_i,                 \* index of the next step of node_execute's loop
    a_trace,             \* node_execute's local trace
    \* history
    raised,              \* collaborators (and constructors) that raised
    lit_calls,           \* gene lists handed to literature verification
    bridge_log,          \* every call_skill: skill, outcome and return value
    \* fusion harness
    h_td,                \* top_down_results handed to validate_and_rank
    h_bu,                \* bottom_up_results handed to validate_and_rank
    h_pending,           \* records not yet registered, applied in any order
    h_cands,             \* the candidates dict those registrations have built
    h_pc,                \* "off", "fold", "ranked", "attached"
    h_list,              \* the ranked list (validate_and_rank's, then attached)
    h_lit,               \* the verdict map handed to attach_literature_evidence
    h_attached,          \* how many times it has been applied to h_list
    h_once               \* the list after the first application

hvars == <<h_td, h_bu, h_pending, h_cands, h_pc, h_list, h_lit, h_attached, h_once>>

worldvars == <<w_n, w_known, w_targets>>

gvars == <<mode, plan_steps, omics_results, kg_results, opentargets_results,
           merged_candidates, top_candidates, literature_results, final_report,
           errors, pc, built>>

avars == <<plan, execution_trace, final_candidates, a_pc, a_i, a_trace>>

histvars == <<raised, lit_calls, bridge_log>>

wvars == <<engine, worldvars, gvars, avars, status, histvars>>

vars == <<wvars, hvars>>

\* ------------------------------------------------------ the fusion harness
\* validate_and_rank and attach_literature_evidence applied to drawn inputs.
HGenes == 1..MaxHGenes

Sig(score, fc, summary) ==
    <<[omics_score |-> score, log2fc |-> <<fc>>, ai_summary |-> summary]>>

Data(known, narrative, raw, sig) ==
    [is_known |-> known, kg_narrative |-> narrative, kg_raw |-> raw,
     omics_signal |-> sig]

\* Records a top-down result may carry for a gene.
HTdData ==
    { Data(FALSE, <<2, 2>>, <<101>>, Sig(8123, 1, <<7>>)),
      Data(FALSE, <<2, 1, 1>>, <<101, 101>>, NotFoundSig),
      Data(TRUE, <<2, 2>>, <<1, 101>>, NotFoundSig) }

\* Records a bottom-up result may carry for a gene.
HBuData ==
    { Data(FALSE, <<1, 1>>, <<2, 101>>, Sig(8000, 2, <<8>>)),
      Data(FALSE, <<>>, <<>>, Sig(3000, 3, <<>>)) }

\* The dicts over HGenes (keys ascending) whose values come from a set.
RECURSIVE DictsFrom(_, _)
DictsFrom(g, choices) ==
    IF g > MaxHGenes THEN {<<>>}
    ELSE LET rest == DictsFrom(g + 1, choices)
         IN  rest \cup {<<[gene |-> g, data |-> d]>> \o r : d \in choices, r \in rest}

Triples(results, source) ==
    {[gene |-> results[i].gene, source |-> source, data |-> results[i].data] :
        i \in 1..Len(results)}

Verdict(level, snippets) == [level |-> level, snippets |-> snippets]

HVerdicts ==
    { Verdict({"strong"}, <<9>>), Verdict({"high"}, <<>>), Verdict({"medium"}, <<>>),
      Verdict({"low"}, <<>>), Verdict({}, <<>>) }

\* Verdict maps: one verdict for any set of genes.
HLitMaps == UNION {DictsFrom(1, {v}) : v \in HVerdicts}

\* The same dict with its symbols in the spelling of the knowledge graph,
\* which need not be upper case: -g is gene g in another letter case.
Respelled(results) ==
    [i \in 1..Len(results) |-> [gene |-> 0 - results[i].gene, data |-> results[i].data]]

HInit ==
    /\ h_bu \in DictsFrom(1, HBuData)
    /\ \E d \in DictsFrom(1, HTdData) :
          \/ h_td = d /\ Len(d) + Len(h_bu) <= MaxRecs
          \/ h_td = Respelled(d) /\ Len(d) + Len(h_bu) < MaxRecs
    /\ h_pending = Triples(h_td, SrcTD) \cup Triples(h_bu, SrcBU)
    /\ h_cands = <<>>
    /\ h_pc = "fold"
    /\ h_list = <<>>
    /\ h_lit = <<>>
    /\ h_attached = 0
    /\ h_once = <<>>

\* One register call, on any record not yet applied.
HRegister ==
    /\ h_pc = "fold"
    /\ \E t \in h_pending :
          /\ h_cands' = Register(h_cands, t.gene, t.source, t.data)
          /\ h_pending' = h_pending \ {t}
    /\ UNCHANGED <<h_td, h_bu, h_pc, h_list, h_lit, h_attached, h_once>>
    /\ UNCHANGED wvars

\* validate_and_rank(h_td, h_bu).
HRank ==
    /\ h_pc = "fold"
    /\ h_pending = {}
    /\ h_list' = ValidateAndRank(h_td, h_bu)
    /\ h_pc' = "ranked"
    /\ UNCHANGED <<h_td, h_bu, h_pending, h_cands, h_lit, h_attached, h_once>>
    /\ UNCHANGED wvars

\* attach_literature_evidence(h_list, lit), first application.
HAttach ==
    /\ h_pc = "ranked"
    /\ \E lit \in HLitMaps :
          /\ h_lit' = lit
          /\ h_list' = AttachLiteratureEvidence(h_list, lit)
          /\ h_once' = AttachLiteratureEvidence(h_list, lit)
    /\ h_attached' = 1
    /\ h_pc' = "attached"
    /\ UNCHANGED <<h_td, h_bu, h_pending, h_cands>>
    /\ UNCHANGED wvars

\* attach_literature_evidence applied again with the same verdict map.
HAttachAgain ==
    /\ h_pc = "attached"
    /\ h_attached < MaxAttach
    /\ h_list' = AttachLiteratureEvidence(h_list, h_lit)
    /\ h_attached' = h_attached + 1
    /\ UNCHANGED <<h_td, h_bu, h_pending, h_cands, h_pc, h_lit, h_once>>
    /\ UNCHANGED wvars

HNext == HRegister \/ HRank \/ HAttach \/ HAttachAgain

\* ------------------------------------------------- planner.py: the plans
\* A plan step; args["genes"] is a list of genes or the text "<auto>".
Step(skill, genes, auto) ==
    [skill |-> skill, args |-> [genes |-> genes, auto |-> auto, mode |-> "none"]]

\* A step whose args also name the literature mode ("none": no such key).
StepWithMode(skill, genes, auto, m) ==
    [skill |-> skill, args |-> [genes |-> genes, auto |-> auto, mode |-> m]]

\* The fallback plan of PlannerAgent.plan.
DefaultPlan ==
    << Step("run_omics_path", <<>>, FALSE),
       Step("run_kg_path", <<>>, FALSE),
       Step("check_literature", <<>>, TRUE) >>

\* The rule-based plan for a validation request of one target.
ValidationPlan(target) ==
    << Step("run_validation", <<target>>, FALSE),
       Step("check_external", <<target>>, FALSE),
       Step("check_literature", <<target>>, FALSE) >>

\* Step lists the planning LLM may answer with.
LlmPlans ==
    { <<>>,
      << Step("run_kg_path", <<>>, FALSE) >>,
      << Step("run_omics_path", <<>>, FALSE), Step("check_external", <<>>, TRUE) >>,
      << Step("run_kg_path", <<>>, FALSE), Step("check_external", <<1>>, FALSE) >>,
      << Step("check_literature", <<>>, TRUE) >>,
      << Step("check_external", <<1>>, FALSE) >>,
      << Step("run_omics_path", <<>>, FALSE),
         StepWithMode("check_literature", <<>>, TRUE, "validation") >>,
      << Step("run_validation", <<2, 1>>, FALSE) >>,
      << Step("run_omics_path", <<>>, FALSE), Step("run_validation", <<1>>, FALSE) >>,
      << Step("run_validation", <<1>>, FALSE), Step("run_omics_path", <<>>, FALSE) >>,
      << Step("summarize", <<>>, FALSE), Step("run_kg_path", <<>>, FALSE),
         Step("run_omics_path", <<>>, FALSE) >> }

\* PlannerAgent.plan: the rule for validation requests, else the LLM's
\* answer, else the fallback.  A request in validation mode contains the
\* validation keyword, so the rule applies.
PlansFor(m) ==
    IF m = "validation" THEN {ValidationPlan(1)}
    ELSE {ValidationPlan(1), DefaultPlan} \cup LlmPlans

\* args.get("genes", []); a text becomes a one-element list (0 is "<auto>").
GenesArg(args) == IF args.auto THEN <<0>> ELSE args.genes

HasStep(steps, skills) == \E i \in 1..Len(steps) : steps[i].skill \in skills

\* next(s for s in steps if s["skill"] in skills)
FirstStep(steps, skills) ==
    steps[CHOOSE i \in 1..Len(steps) :
             /\ steps[i].skill \in skills
             /\ \A j \in 1..(i - 1) : steps[j].skill \notin skills]

\* ------------------------------------------------ graph/state.py: reducers
\* merge_dict(left, right)
\* The value the last pair of key g gives.
LastOf(pairs, g) ==
    pairs[CHOOSE i \in 1..Len(pairs) :
              /\ pairs[i].gene = g
              /\ \A j \in (i + 1)..Len(pairs) : pairs[j].gene # g].data

\* result.update(right): a key of left keeps its position and takes the
\* value of right, the new keys follow in the order right first has them.
DictUpdate(left, right) ==
    LET kept == [i \in 1..Len(left) |->
                    IF HasKey(right, left[i].gene)
                    THEN [gene |-> left[i].gene, data |-> LastOf(right, left[i].gene)]
                    ELSE left[i]]
        new == SelectSeq([i \in 1..Len(right) |-> i],
                         LAMBDA i : /\ ~HasKey(left, right[i].gene)
                                    /\ KeyIndex(right, right[i].gene) = i)
    IN  kept \o [k \in 1..Len(new) |->
                    [gene |-> right[new[k]].gene,
                     data |-> LastOf(right, right[new[k]].gene)]]

\* Mutant: a later write replaces the whole map.
MergeDictOverwrite(left, right) == right

MergeDict(left, right) ==
    IF left = <<>> THEN right
    ELSE IF right = <<>> THEN left
    ELSE DictUpdate(left, right)

\* ---------------------------------------------------- other collaborators
\* OpenTargetsTool.run with a gene list: one row per requested gene, a gene
\* without association gets the "Not Found" row with score 0.
OtRows(genes, found) ==
    [i \in 1..Len(genes) |->
        [symbol |-> genes[i], score |-> IF genes[i] \in found THEN 500 ELSE 0]]

\* for r in result["results"]: ot_scores[r["symbol"]] = r["score"]
OtScores(rows, acc) ==
    DictUpdate(acc, [i \in 1..Len(rows) |->
                        [gene |-> rows[i].symbol, data |-> rows[i].score]])

VStrong == Verdict({"strong"}, <<9>>)
VHigh == Verdict({"high"}, <<>>)
VMedium == Verdict({"medium"}, <<>>)
VLow == Verdict({"low"}, <<>>)

\* LiteratureTool.run_batch_verification: one verdict per gene of the list.
LitResults(gene_list, strong, other) ==
    [i \in 1..Len(gene_list) |->
        [gene |-> gene_list[i],
         data |-> IF gene_list[i] \in strong THEN VStrong ELSE other]]

\* --------------------------------------------- graph/nodes.py: the workflow
Nodes == {"planner", "omics", "kg", "opentargets", "merge", "literature", "report"}

Tools == {"explorer", "lit_tool", "ot_tool", "validator"}

OmicsSkills == {"run_omics_path", "run_validation"}

OmicsSizes == {0, 2, MaxGenes}

KnownSets == {{}, {1}, {1, 2}}

TargetLists == {<<>>, <<2, 1>>, <<3, 2>>, <<3>>}

GraphRunning == engine = "graph" /\ status = "running"

\* The module-level get_<tool>() read: None means construct.
AfterGet(tool) == IF built[tool] = 0 THEN "construct" ELSE "call"

\* The constructor of a singleton returns, or raises outside any try block.
Construct(node, tool) ==
    /\ GraphRunning
    /\ pc[node] = "construct"
    /\ \/ /\ built' = [built EXCEPT ![tool] = @ + 1]
          /\ pc' = [pc EXCEPT ![node] = "call"]
          /\ UNCHANGED <<status, raised>>
       \/ /\ status' = "aborted"
          /\ raised' = raised \cup {tool}
          /\ UNCHANGED <<built, pc>>
    /\ UNCHANGED <<engine, worldvars, avars, hvars, lit_calls, bridge_log>>
    /\ UNCHANGED <<mode, plan_steps, omics_results, kg_results, opentargets_results,
                   merged_candidates, top_candidates, literature_results,
                   final_report, errors>>

PlannerNode ==
    /\ GraphRunning
    /\ pc["planner"] = "ready"
    /\ \E p \in PlansFor(mode) : plan_steps' = p
    /\ pc' = [pc EXCEPT !["planner"] = "done", !["omics"] = "ready",
                        !["kg"] = "ready", !["opentargets"] = "ready"]
    /\ UNCHANGED <<engine, worldvars, avars, hvars, histvars, status, built>>
    /\ UNCHANGED <<mode, omics_results, kg_results, opentargets_results,
                   merged_candidates, top_candidates, literature_results,
                   final_report, errors>>

\* omics_node up to get_explorer().
OmicsStart ==
    /\ GraphRunning
    /\ pc["omics"] = "ready"
    /\ IF ~HasStep(plan_steps, OmicsSkills)
       THEN /\ omics_results' = MergeDict(omics_results, <<>>)
            /\ pc' = [pc EXCEPT !["omics"] = "done"]
       ELSE /\ pc' = [pc EXCEPT !["omics"] = AfterGet("explorer")]
            /\ UNCHANGED omics_results
    /\ UNCHANGED <<engine, worldvars, avars, hvars, histvars, status, built>>
    /\ UNCHANGED <<mode, plan_steps, kg_results, opentargets_results,
                   merged_candidates, top_candidates, literature_results,
                   final_report, errors>>

OmicsConstruct == Construct("omics", "explorer")

\* omics_node's try block.
OmicsCall ==
    /\ GraphRunning
    /\ pc["omics"] = "call"
    /\ LET step == FirstStep(plan_steps, OmicsSkills)
           results == IF step.skill = "run_validation"
                      THEN RunValidationDeepDiven(GenesArg(step.args), w_n, w_known)
                      ELSE RunPathOmicsDriven(w_n, w_known, DefaultThreshold)
       IN  \/ /\ omics_results' = MergeDict(omics_results, results)
              /\ UNCHANGED <<errors, raised>>
           \/ /\ omics_results' = MergeDict(omics_results, <<>>)
              /\ errors' = errors \o <<"Omics error">>
              /\ raised' = raised \cup {"omics"}
    /\ pc' = [pc EXCEPT !["omics"] = "done"]
    /\ UNCHANGED <<engine, worldvars, avars, hvars, lit_calls, bridge_log, status, built>>
    /\ UNCHANGED <<mode, plan_steps, kg_results, opentargets_results,
                   merged_candidates, top_candidates, literature_results,
                   final_report>>

\* kg_node up to get_explorer().
KgStart ==
    /\ GraphRunning
    /\ pc["kg"] = "ready"
    /\ IF ~HasStep(plan_steps, {"run_kg_path"})
       THEN /\ kg_results' = MergeDict(kg_results, <<>>)
            /\ pc' = [pc EXCEPT !["kg"] = "done"]
       ELSE /\ pc' = [pc EXCEPT !["kg"] = AfterGet("explorer")]
            /\ UNCHANGED kg_results
    /\ UNCHANGED <<engine, worldvars, avars, hvars, histvars, status, built>>
    /\ UNCHANGED <<mode, plan_steps, omics_results, opentargets_results,
                   merged_candidates, top_candidates, literature_results,
                   final_report, errors>>

KgConstruct == Construct("kg", "explorer")

\* Mutant: the except branch reports no error.
KgErrorNone == <<>>

\* The errors update of kg_node's except branch.
KgError == <<"KG error">>

\* kg_node's try block.
KgCall ==
    /\ GraphRunning
    /\ pc["kg"] = "call"
    /\ \/ /\ kg_results' = MergeDict(kg_results, RunPathKgDriven(w_targets, w_n))
          /\ UNCHANGED <<errors, raised>>
       \/ /\ kg_results' = MergeDict(kg_results, <<>>)
          /\ errors' = errors \o KgError
          /\ raised' = raised \cup {"kg"}
    /\ pc' = [pc EXCEPT !["kg"] = "done"]
    /\ UNCHANGED <<engine, worldvars, avars, hvars, lit_calls, bridge_log, status, built>>
    /\ UNCHANGED <<mode, plan_steps, omics_results, opentargets_results,
                   merged_candidates, top_candidates, literature_results,
                   final_report>>

\* kg_node's call of run_path_kg_driven does not return: nothing in kg_node,
\* create_workflow or run_discovery bounds the time of a node.
KgCallBlocks ==
    /\ GraphRunning
    /\ pc["kg"] = "call"
    /\ pc' = [pc EXCEPT !["kg"] = "blocked"]
    /\ UNCHANGED <<engine, worldvars, avars, hvars, histvars, status, built>>
    /\ UNCHANGED <<mode, plan_steps, omics_results, kg_results, opentargets_results,
                   merged_candidates, top_candidates, literature_results,
                   final_report, errors>>

\* opentargets_node up to get_ot_tool().
OtStart ==
    /\ GraphRunning
    /\ pc["opentargets"] = "ready"
    /\ IF ~HasStep(plan_steps, {"check_external"})
       THEN /\ opentargets_results' = MergeDict(opentargets_results, <<>>)
            /\ pc' = [pc EXCEPT !["opentargets"] = "done"]
       ELSE LET args == FirstStep(plan_steps, {"check_external"}).args
            IN  IF args.auto \/ args.genes = <<>>
                THEN /\ opentargets_results' = MergeDict(opentargets_results, <<>>)
                     /\ pc' = [pc EXCEPT !["opentargets"] = "done"]
                ELSE /\ pc' = [pc EXCEPT !["opentargets"] = AfterGet("ot_tool")]
                     /\ UNCHANGED opentargets_results
    /\ UNCHANGED <<engine, worldvars, avars, hvars, histvars, status, built>>
    /\ UNCHANGED <<mode, plan_steps, omics_results, kg_results,
                   merged_candidates, top_candidates, literature_results,
                   final_report, errors>>

OtConstruct == Construct("opentargets", "ot_tool")

\* opentargets_node's try block.
OtCall ==
    /\ GraphRunning
    /\ pc["opentargets"] = "call"
    /\ LET genes == FirstStep(plan_steps, {"check_external"}).args.genes
       IN  \/ \E found \in SUBSET Range(genes) :
                 /\ opentargets_results' =
                        MergeDict(opentargets_results, OtScores(OtRows(genes, found), <<>>))
                 /\ UNCHANGED <<errors, raised>>
           \/ /\ opentargets_results' = MergeDict(opentargets_results, <<>>)
              /\ errors' = errors \o <<"OpenTargets error">>
              /\ raised' = raised \cup {"opentargets"}
    /\ pc' = [pc EXCEPT !["opentargets"] = "done"]
    /\ UNCHANGED <<engine, worldvars, avars, hvars, lit_calls, bridge_log, status, built>>
    /\ UNCHANGED <<mode, plan_steps, omics_results, kg_results,
                   merged_candidates, top_candidates, literature_results,
                   final_report>>

\* Mutant: no slice.
TopGenesOfAll(ranked) == [i \in 1..Len(ranked) |-> ranked[i].Gene]

\* top_genes = [c["Gene"] for c in ranked[:20]]
TopGenesOf(ranked) == [i \in 1..Len(Take(ranked, TopN)) |-> ranked[i].Gene]

\* merged = {c["Gene"]: c for c in ranked}
MergedOf(ranked) == [i \in 1..Len(ranked) |-> [gene |-> ranked[i].Gene, data |-> ranked[i]]]

\* Mutant: merge is triggered by the first branch that finishes.
BranchesDoneAny == \E nd \in {"omics", "kg", "opentargets"} : pc[nd] = "done"

\* The fan-in edges omics -> merge, kg -> merge, opentargets -> merge: the
\* three nodes run in the same step of the graph, merge in the step after it.
BranchesDone == pc["omics"] = "done" /\ pc["kg"] = "done" /\ pc["opentargets"] = "done"

\* merge_node, run once omics, kg and opentargets have all finished.
MergeNode ==
    /\ GraphRunning
    /\ BranchesDone
    /\ pc["merge"] = "wait"
    /\ LET ranked == ValidateAndRank(kg_results, omics_results)
       IN  /\ merged_candidates' = MergedOf(ranked)
           /\ top_candidates' = TopGenesOf(ranked)
    /\ built' = [built EXCEPT !["validator"] = IF @ = 0 THEN 1 ELSE @]
    /\ pc' = [pc EXCEPT !["merge"] = "done", !["literature"] = "ready"]
    /\ UNCHANGED <<engine, worldvars, avars, hvars, histvars, status>>
    /\ UNCHANGED <<mode, plan_steps, omics_results, kg_results, opentargets_results,
                   literature_results, final_report, errors>>

\* Mutant: an empty list is not noticed.
NoCandidatesNever(top_genes) == FALSE

\* if not top_genes
NoCandidates(top_genes) == top_genes = <<>>

\* literature_node up to get_lit_tool().
LitStart ==
    /\ GraphRunning
    /\ pc["literature"] = "ready"
    /\ IF NoCandidates(top_candidates)
       THEN /\ literature_results' = MergeDict(literature_results, <<>>)
            /\ pc' = [pc EXCEPT !["literature"] = "done", !["report"] = "ready"]
       ELSE /\ pc' = [pc EXCEPT !["literature"] = AfterGet("lit_tool")]
            /\ UNCHANGED literature_results
    /\ UNCHANGED <<engine, worldvars, avars, hvars, histvars, status, built>>
    /\ UNCHANGED <<mode, plan_steps, omics_results, kg_results, opentargets_results,
                   merged_candidates, top_candidates, final_report, errors>>

LitConstruct == Construct("literature", "lit_tool")

\* The verdicts the literature tool may return for a gene list.
LitOutcomes(gene_list) ==
    {LitResults(gene_list, strong, other) :
        strong \in SUBSET Range(Take(gene_list, 2)), other \in {VMedium, VLow}}

\* Mutant: the verdicts gathered before the failure are returned.
LitFailureVerdictsPartial(gene_list) == LitResults(gene_list, {}, VMedium)

\* The literature_results of literature_node's except branch.
LitFailureVerdicts(gene_list) == <<>>

\* literature_node's try block.
LitCall ==
    /\ GraphRunning
    /\ pc["literature"] = "call"
    /\ lit_calls' = Append(lit_calls, top_candidates)
    /\ \/ \E results \in LitOutcomes(top_candidates) :
             /\ literature_results' = MergeDict(literature_results, results)
             /\ UNCHANGED <<errors, raised>>
       \/ /\ literature_results' =
                 MergeDict(literature_results, LitFailureVerdicts(top_candidates))
          /\ errors' = errors \o <<"Literature error">>
          /\ raised' = raised \cup {"literature"}
    /\ pc' = [pc EXCEPT !["literature"] = "done", !["report"] = "ready"]
    /\ UNCHANGED <<engine, worldvars, avars, hvars, bridge_log, status, built>>
    /\ UNCHANGED <<mode, plan_steps, omics_results, kg_results, opentargets_results,
                   merged_candidates, top_candidates, final_report>>

\* if gene in ot_scores: Score += 1.0; External_DB_Score = ot_scores[gene]
AddExternal(item, ot_scores) ==
    IF HasKey(ot_scores, item.Gene)
    THEN [item EXCEPT !.Score = @ + ExternalBonus,
                      !.External_DB_Score = <<DictGet(ot_scores, item.Gene)>>]
    ELSE item

\* Mutant: every merged candidate is reported.
PickTopAll(merged, top_genes) == [i \in 1..Len(merged) |-> merged[i].data]

\* [merged[g] for g in top_genes if g in merged]
PickTop(merged, top_genes) ==
    LET held == SelectSeq(top_genes, LAMBDA g : HasKey(merged, g))
    IN  [i \in 1..Len(held) |-> DictGet(merged, held[i])]

\* Mutant: every gene with an external record is reported too.
ReportListWithExternal(merged, top_genes, lit_results, ot_scores) ==
    LET attached == AttachLiteratureEvidence(PickTop(merged, top_genes), lit_results)
    IN  SortByScore([i \in 1..Len(attached) |-> AddExternal(attached[i], ot_scores)])
            \o [i \in 1..Len(ot_scores) |->
                   [Gene |-> ot_scores[i].gene, Score |-> ExternalBonus]]

\* The list report_node returns.
ReportList(merged, top_genes, lit_results, ot_scores) ==
    LET attached == AttachLiteratureEvidence(PickTop(merged, top_genes), lit_results)
    IN  SortByScore([i \in 1..Len(attached) |-> AddExternal(attached[i], ot_scores)])

\* The reported items are the objects merged holds: its entries change too.
Aliased(merged, report) ==
    DictUpdate(merged, [i \in 1..Len(report) |->
                           [gene |-> report[i].Gene, data |-> report[i]]])

ReportNode ==
    /\ GraphRunning
    /\ pc["report"] = "ready"
    /\ LET report == ReportList(merged_candidates, top_candidates,
                                literature_results, opentargets_results)
       IN  /\ final_report' = report
           /\ merged_candidates' = Aliased(merged_candidates, report)
    /\ built' = [built EXCEPT !["validator"] = IF @ = 0 THEN 1 ELSE @]
    /\ pc' = [pc EXCEPT !["report"] = "done"]
    /\ status' = "reported"
    /\ UNCHANGED <<engine, worldvars, avars, hvars, histvars>>
    /\ UNCHANGED <<mode, plan_steps, omics_results, kg_results, opentargets_results,
                   top_candidates, literature_results, errors>>

\* ------------------------------------------------ bridge.py: the dispatcher
SkillMap == {"run_omics_path", "run_kg_path", "run_validation",
             "check_literature", "check_external"}

\* What the collaborator behind a skill may do with these arguments:
\* return data, or raise.
SkillData(skill, args) ==
    IF skill = "run_omics_path"
    THEN {RunPathOmicsDriven(w_n, w_known, DefaultThreshold)}
    ELSE IF skill = "run_kg_path"
    THEN {RunPathKgDriven(w_targets, w_n)}
    ELSE IF skill = "run_validation"
    THEN {RunValidationDeepDiven(GenesArg(args), w_n, w_known)}
    ELSE IF skill = "check_literature"
    THEN (IF GenesArg(args) = <<>> THEN {<<>>} ELSE LitOutcomes(GenesArg(args)))
    ELSE IF skill = "check_external"
    THEN {[results |-> OtRows(GenesArg(args), found)] :
             found \in SUBSET Range(GenesArg(args))}
    ELSE {<<>>}

SkillOutcomes(skill, args) ==
    {[raises |-> FALSE, data |-> d] : d \in SkillData(skill, args)}
        \cup {[raises |-> TRUE, data |-> <<>>]}

\* Mutant: the exception of the collaborator is not caught.
CallSkillNoCatch(skill_name, args, outcome) ==
    IF skill_name \notin SkillMap
    THEN [status |-> "error", message |-> "not found"]
    ELSE IF outcome.raises
    THEN [status |-> "raised", message |-> "exception"]
    ELSE [status |-> "success", data |-> outcome.data, source |-> skill_name]

\* The value call_skill returns when the collaborator behaves as `outcome`.
CallSkill(skill_name, args, outcome) ==
    IF skill_name \notin SkillMap
    THEN [status |-> "error", message |-> "not found"]
    ELSE IF outcome.raises
    THEN [status |-> "error", message |-> "exception"]
    ELSE [status |-> "success", data |-> outcome.data, source |-> skill_name]

\* Whether call_skill reaches func(args).
Invokes(skill_name) == skill_name \in SkillMap

LogEntry(skill, args, outcome) ==
    [skill |-> skill, args |-> args, outcome |-> outcome, invoked |-> Invokes(skill),
     ret |-> CallSkill(skill, args, outcome)]

\* ------------------------------------------ agent_graph.py: DiscoveryGraph
AgentRunning == engine = "agent" /\ status = "running"

\* node_plan
AgentPlan ==
    /\ AgentRunning
    /\ a_pc = "plan"
    /\ \E p \in PlansFor(mode) : plan' = p
    /\ execution_trace' = execution_trace \o <<>>
    /\ a_pc' = "execute"
    /\ a_i' = 1
    /\ a_trace' = <<>>
    /\ UNCHANGED <<engine, worldvars, gvars, hvars, histvars, status, final_candidates>>

\* Mutant: no step is deferred.
DeferredNone(skill) == FALSE

\* if skill == "check_literature": trace.append({... "deferred": True}); continue
Deferred(skill) == skill = "check_literature"

\* One iteration of node_execute's loop.
AgentExecuteStep ==
    /\ AgentRunning
    /\ a_pc = "execute"
    /\ a_i <= Len(plan)
    /\ LET skill == plan[a_i].skill
           args == plan[a_i].args
       IN  IF Deferred(skill)
           THEN /\ a_trace' = Append(a_trace,
                                     [skill |-> skill, args |-> args, deferred |-> TRUE])
                /\ UNCHANGED <<bridge_log, raised>>
           ELSE \E outcome \in SkillOutcomes(skill, args) :
                   LET result == CallSkill(skill, args, outcome)
                   IN  /\ bridge_log' = Append(bridge_log, LogEntry(skill, args, outcome))
                       /\ raised' = IF Invokes(skill) /\ outcome.raises
                                    THEN raised \cup {skill} ELSE raised
                       /\ a_trace' = IF result.status = "success"
                                     THEN Append(a_trace,
                                                 [skill |-> skill, data |-> result.data,
                                                  deferred |-> FALSE])
                                     ELSE a_trace
    /\ a_i' = a_i + 1
    /\ UNCHANGED <<engine, worldvars, gvars, hvars, lit_calls, status,
                   plan, execution_trace, final_candidates, a_pc>>

\* return {"execution_trace": trace}
AgentExecuteReturn ==
    /\ AgentRunning
    /\ a_pc = "execute"
    /\ a_i > Len(plan)
    /\ execution_trace' = execution_trace \o a_trace
    /\ a_pc' = "synthesize"
    /\ UNCHANGED <<engine, worldvars, gvars, hvars, histvars, status,
                   plan, final_candidates, a_i, a_trace>>

\* Step 1 of node_synthesize: the trace sorted into res_a, res_b, ot_data.
RECURSIVE Classify(_, _)
Classify(trace, acc) ==
    IF trace = <<>> THEN acc
    ELSE LET item == Head(trace)
             next ==
                IF item.deferred
                THEN (IF item.skill = "check_literature"
                      THEN [acc EXCEPT !.lit_args = <<item.args>>] ELSE acc)
                ELSE IF item.skill = "run_omics_path"
                THEN [acc EXCEPT !.res_a = item.data]
                ELSE IF item.skill = "run_kg_path"
                THEN [acc EXCEPT !.res_b = item.data]
                ELSE IF item.skill = "run_validation"
                THEN [acc EXCEPT !.res_a = DictUpdate(acc.res_a, item.data)]
                ELSE IF item.skill = "check_external"
                THEN [acc EXCEPT !.ot_data = OtScores(item.data.results, acc.ot_data)]
                ELSE acc
         IN  Classify(Tail(trace), next)

Classified(trace) ==
    Classify(trace, [res_a |-> <<>>, res_b |-> <<>>, ot_data |-> <<>>, lit_args |-> <<>>])

\* Steps 5 and 6 of node_synthesize.
WithExternal(top_20, ot_data) ==
    SortByScore([i \in 1..Len(top_20) |-> AddExternal(top_20[i], ot_data)])

\* The arguments node_synthesize gives to check_literature.
SynthLitArgs(top_20_genes) ==
    [genes |-> top_20_genes, auto |-> FALSE, mode |-> "discovery"]

\* node_synthesize
AgentSynthesize ==
    /\ AgentRunning
    /\ a_pc = "synthesize"
    /\ LET c == Classified(execution_trace)
           final == ValidateAndRank(c.res_b, c.res_a)
           top_20 == Take(final, TopN)
           top_20_genes == TopGenesOf(final)
           args == SynthLitArgs(top_20_genes)
       IN  IF ~NoCandidates(top_20_genes)
           THEN \E outcome \in SkillOutcomes("check_literature", args) :
                   LET lit_result == CallSkill("check_literature", args, outcome)
                       attached == IF lit_result.status = "success"
                                   THEN AttachLiteratureEvidence(top_20, lit_result.data)
                                   ELSE top_20
                   IN  /\ bridge_log' = Append(bridge_log,
                                               LogEntry("check_literature", args, outcome))
                       /\ lit_calls' = Append(lit_calls, args.genes)
                       /\ raised' = IF outcome.raises
                                    THEN raised \cup {"check_literature"} ELSE raised
                       /\ final_candidates' = WithExternal(attached, c.ot_data)
           ELSE /\ final_candidates' = WithExternal(top_20, c.ot_data)
                /\ UNCHANGED <<bridge_log, lit_calls, raised>>
    /\ a_pc' = "done"
    /\ status' = "reported"
    /\ UNCHANGED <<engine, worldvars, gvars, hvars, plan, execution_trace, a_i, a_trace>>

\* ------------------------------------------------------------ specifications
Worlds ==
    {w \in [n : OmicsSizes, known : KnownSets, targets : TargetLists] :
        Range(w.targets) \cap w.known = {}}

\* The orchestration state before a run: create_initial_state, no singleton.
RunInit(eng, m, w) ==
    /\ engine = eng
    /\ w_n = w.n /\ w_known = w.known /\ w_targets = w.targets
    /\ mode = m
    /\ plan_steps = <<>>
    /\ omics_results = <<>> /\ kg_results = <<>> /\ opentargets_results = <<>>
    /\ merged_candidates = <<>> /\ top_candidates = <<>>
    /\ literature_results = <<>>
    /\ final_report = <<>>
    /\ errors = <<>>
    /\ pc = [nd \in Nodes |-> IF nd = "planner" THEN "ready" ELSE "wait"]
    /\ status = "running"
    /\ built = [t \in Tools |-> 0]
    /\ plan = <<>> /\ execution_trace = <<>> /\ final_candidates = <<>>
    /\ a_pc = "plan" /\ a_i = 1 /\ a_trace = <<>>
    /\ raised = {} /\ lit_calls = <<>> /\ bridge_log = <<>>

HarnessOff ==
    /\ h_td = <<>> /\ h_bu = <<>> /\ h_pending = {} /\ h_cands = <<>>
    /\ h_pc = "off" /\ h_list = <<>> /\ h_lit = <<>> /\ h_attached = 0
    /\ h_once = <<>>

Init ==
    /\ \E w \in Worlds :
          \/ \E m \in {"discovery", "validation"} : RunInit("graph", m, w)
          \/ RunInit("agent", "discovery", w)
    /\ HarnessOff

Next ==
    \/ PlannerNode
    \/ OmicsStart \/ OmicsConstruct \/ OmicsCall
    \/ KgStart \/ KgConstruct \/ KgCall \/ KgCallBlocks
    \/ OtStart \/ OtConstruct \/ OtCall
    \/ MergeNode
    \/ LitStart \/ LitConstruct \/ LitCall
    \/ ReportNode
    \/ AgentPlan \/ AgentExecuteStep \/ AgentExecuteReturn \/ AgentSynthesize

Spec == Init /\ [][Next]_vars

FuseInit ==
    /\ RunInit("harness", "discovery", [n |-> 0, known |-> {}, targets |-> <<>>])
    /\ HInit

SpecFuse == FuseInit /\ [][HNext]_vars

\* ----------------------------------------- graph/state.py: reducers applied
\* The two reducers of GraphState applied to the return of a node: the
\* channel omics_results under merge_dict, errors under operator.add.  The
\* state before the return is drawn, the return applied is kept in bridge_log.
Updates ==
    {d \in UNION {[1..n -> [gene : 1..MaxKeys, data : {1, 2}]] : n \in 0..MaxKeys} :
        \A i, j \in 1..Len(d) : d[i].gene = d[j].gene => i = j}

ErrorLists == UNION {[1..n -> {"e1", "e2"}] : n \in 0..MaxErrs}

ReduceInit ==
    /\ engine = "reducer"
    /\ w_n = 0 /\ w_known = {} /\ w_targets = <<>>
    /\ mode = "discovery"
    /\ plan_steps = <<>>
    /\ omics_results \in Updates
    /\ kg_results = <<>> /\ opentargets_results = <<>>
    /\ merged_candidates = <<>> /\ top_candidates = <<>>
    /\ literature_results = <<>>
    /\ final_report = <<>>
    /\ errors \in {<<>>, <<"e0">>}
    /\ pc = [nd \in Nodes |-> "wait"]
    /\ status = "running"
    /\ built = [t \in Tools |-> 0]
    /\ plan = <<>> /\ execution_trace = <<>> /\ final_candidates = <<>>
    /\ a_pc = "plan" /\ a_i = 1 /\ a_trace = <<>>
    /\ raised = {} /\ lit_calls = <<>> /\ bridge_log = <<>>
    /\ HarnessOff

\* One node return {"omics_results": right, "errors": errs} folded into the
\* state by the reducers of its keys.
ReduceReturn ==
    /\ engine = "reducer"
    /\ bridge_log = <<>>
    /\ \E right \in Updates, errs \in ErrorLists :
          /\ omics_results' = MergeDict(omics_results, right)
          /\ errors' = errors \o errs
          /\ bridge_log' = <<[ret |-> right, errs |-> errs]>>
    /\ UNCHANGED <<engine, worldvars, avars, hvars, status, raised, lit_calls>>
    /\ UNCHANGED <<mode, plan_steps, kg_results, opentargets_results,
                   merged_candidates, top_candidates, literature_results,
                   final_report, pc, built>>

SpecReduce == ReduceInit /\ [][ReduceReturn]_vars

\* -------------------------------------------------------------------- claims
GenesOf(list) == {list[i].Gene : i \in 1..Len(list)}

Items(list) == {list[i] : i \in 1..Len(list)}

TierScores(list) == {<<list[i].Gene, list[i].Tier, list[i].Score>> : i \in 1..Len(list)}

\* The candidates dict validate_and_rank builds, in the order of its code.
CodeOrderCandidates(td, bu) == RegisterAll(RegisterAll(<<>>, td, SrcTD), bu, SrcBU)

\* C1: the tier and the score of every candidate are the same whatever the
\* order in which the records of the two branches are registered: any
\* interleaving of the register calls gives what validate_and_rank gives.
C1_OrderIndependent ==
    h_pc = "ranked" => TierScores(RankCandidates(h_cands)) = TierScores(h_list)

\* C1 witness: a Consensus candidate whose registrations ran in another
\* order than the code's (the candidates dict differs).
C1_Witness ==
    /\ h_pc = "ranked"
    /\ h_cands # CodeOrderCandidates(h_td, h_bu)
    /\ \E it \in Items(h_list) : it.Tier = Tier1

\* Genes of the records of a result dict that carry is_known = true.
KnownIn(results) ==
    {results[i].gene : i \in {j \in 1..Len(results) : results[j].data.is_known}}

\* Result dicts of the gathering steps recorded in a trace.
TraceRecords(trace) ==
    {trace[i].data : i \in {j \in 1..Len(trace) :
        ~trace[j].deferred
        /\ trace[j].skill \in {"run_omics_path", "run_kg_path", "run_validation"}}}

\* Whether run_path_omics_driven has returned in this run.
PathAReturned ==
    \/ /\ engine = "graph"
       /\ pc["omics"] = "done"
       /\ "omics" \notin raised
       /\ HasStep(plan_steps, OmicsSkills)
       /\ FirstStep(plan_steps, OmicsSkills).skill = "run_omics_path"
    \/ /\ engine = "agent"
       /\ \E i \in 1..Len(a_trace) : a_trace[i].skill = "run_omics_path"

\* Genes a gathering step has seen reported as known: in a record it
\* returned, or in the known_status_map run_path_omics_driven filters by.
CarriedKnown ==
    KnownIn(omics_results) \cup KnownIn(kg_results)
    \cup UNION {KnownIn(d) : d \in TraceRecords(a_trace)}
    \cup (IF PathAReturned
          THEN Range(GetTopGenes(w_n, OmicsLimit, DefaultThreshold)) \cap w_known
          ELSE {})

OutputGenes ==
    Keys(merged_candidates) \cup Range(top_candidates) \cup GenesOf(final_report)
    \cup GenesOf(final_candidates)

ValidationRun ==
    /\ engine = "graph"
    /\ HasStep(plan_steps, OmicsSkills)
    /\ FirstStep(plan_steps, OmicsSkills).skill = "run_validation"

\* C3: in validation mode a candidate whose record carries is_known = true
\* is retained: it is in the fusion output and in the final report.
C3_KnownRetained ==
    (ValidationRun /\ status = "reported" /\ raised = {})
        => (KnownIn(omics_results) \subseteq
                (Keys(merged_candidates) \cap GenesOf(final_report)))

\* Whether a result dict registers gene g (a record not rejected as known).
Registers(results, g) ==
    \E i \in 1..Len(results) : results[i].gene = g /\ ~results[i].data.is_known

\* The tier the fusion policy gives a gene seen in these branches.
ExpectedTier(in_td, in_bu) ==
    IF in_td /\ in_bu THEN Tier1 ELSE IF in_bu THEN Tier2 ELSE Tier3

\* C4: a candidate registered from both branches is Consensus, one from the
\* bottom-up branch only is DataDriven, one from the top-down branch only is
\* TheoryOnly, and every candidate was registered from some branch.
C4_Tiers ==
    h_pc = "ranked" =>
        \A it \in Items(h_list) :
            /\ Registers(h_td, it.Gene) \/ Registers(h_bu, it.Gene)
            /\ it.Tier = ExpectedTier(Registers(h_td, it.Gene), Registers(h_bu, it.Gene))

\* C4 witness: a ranking with a Consensus and a TheoryOnly candidate.
C4_Witness ==
    /\ h_pc = "ranked"
    /\ \E a, b \in Items(h_list) : a.Tier = Tier1 /\ b.Tier = Tier3

\* The omics scores of the records that register gene g.
SeenScores(results, g) ==
    {results[i].data.omics_signal[1].omics_score :
        i \in {j \in 1..Len(results) :
                  /\ results[j].gene = g
                  /\ ~results[j].data.is_known
                  /\ results[j].data.omics_signal # <<>>}}

Max0(S) == IF S = {} THEN 0 ELSE CHOOSE x \in S : \A y \in S : y <= x

BestSeen(g) == Max0(SeenScores(h_td, g) \cup SeenScores(h_bu, g))

\* The score the scoring policy states, unrounded.
PolicyScore(it) ==
    IF it.Tier = Tier1 THEN BestSeen(it.Gene) + ConsensusBonus
    ELSE IF it.Tier = Tier2 THEN BestSeen(it.Gene) + DataDrivenBonus
    ELSE TheoryOnlyScore

\* C5 as stated: the score is the best numeric score plus 5.0 (Consensus) or
\* plus 2.0 (DataDriven), and exactly 1.0 for TheoryOnly.
C5_ScoreExact ==
    h_pc = "ranked" => \A it \in Items(h_list) : it.Score = PolicyScore(it)

\* C5 amended: the score is that sum rounded to two decimals, and the list
\* is in descending order of score.
C5_ScoreRounded ==
    h_pc = "ranked" =>
        /\ \A it \in Items(h_list) : it.Score = Round2(PolicyScore(it))
        /\ \A i, j \in 1..Len(h_list) : i < j => h_list[i].Score >= h_list[j].Score

\* C5 witness: a Consensus candidate whose sum has a third decimal, next to
\* a TheoryOnly candidate that has a numeric score.
C5_Witness ==
    /\ h_pc = "ranked"
    /\ \E a, b \in Items(h_list) :
          /\ a.Tier = Tier1 /\ PolicyScore(a) # Round2(PolicyScore(a))
          /\ b.Tier = Tier3 /\ BestSeen(b.Gene) > 0

\* The score of each gene of a list.
ScoresOf(list) == {<<list[i].Gene, list[i].Score>> : i \in 1..Len(list)}

\* C6: attach_literature_evidence applied twice (or more) with the same
\* verdict map leaves every candidate with the score one application gives.
C6_Idempotent ==
    h_attached >= 2 => ScoresOf(h_list) = ScoresOf(h_once)

\* C7: every call of the literature verification, by literature_node or by
\* node_synthesize, passes at most 20 gene ids.
C7_AtMostTopN ==
    \A i \in 1..Len(lit_calls) : Len(lit_calls[i]) <= TopN

\* C7 witness: fusion produced more than 20 candidates and the literature
\* verification was called with 20 of them.
C7_Witness ==
    /\ engine = "graph"
    /\ Len(merged_candidates) > TopN
    /\ \E i \in 1..Len(lit_calls) : Len(lit_calls[i]) = TopN

\* The genes of the records a result dict holds that are not known.
NonKnownIn(results) == Keys(results) \ KnownIn(results)

\* C8: when kg_node's call raises and nothing else does, the run is not
\* aborted and can go on until it has reported; the report then holds only
\* bottom-up candidates, is non-empty when the bottom-up branch returned a
\* non-known candidate, and errors holds the one entry of the KG failure.
KgOnlyFailure == engine = "graph" /\ raised = {"kg"}

\* The guards of the graph's actions: a node is ready, constructing its tool
\* or calling it, or the three branches are done and merge_node may run.
NodeCanStep ==
    \/ \E nd \in Nodes : pc[nd] \in {"ready", "construct", "call"}
    \/ /\ pc["merge"] = "wait"
       /\ pc["omics"] = "done" /\ pc["kg"] = "done" /\ pc["opentargets"] = "done"

C8_KgFailureTolerated ==
    KgOnlyFailure =>
        /\ status \in {"running", "reported"}
        /\ status = "running" => NodeCanStep
        /\ status = "reported" =>
              /\ NonKnownIn(omics_results) # {} => final_report # <<>>
              /\ GenesOf(final_report) \subseteq NonKnownIn(omics_results)
              /\ \A it \in Items(final_report) : it.Tier = Tier2
              /\ errors = <<"KG error">>

\* C8 witness: a reported run whose only failure is the KG call, with a
\* non-known bottom-up candidate.
C8_Witness ==
    /\ engine = "graph"
    /\ raised = {"kg"}
    /\ status = "reported"
    /\ NonKnownIn(omics_results) # {}
    /\ final_report # <<>>

C10_CallSkillTotal ==
    \A e \in Range(bridge_log) :
        /\ e.ret.status \in {"success", "error"}
        /\ e.ret.status = "success" =>
              /\ e.skill \in SkillMap
              /\ ~e.outcome.raises
              /\ e.ret.data = e.outcome.data
              /\ e.ret.source = e.skill
        /\ e.skill \notin SkillMap =>
              /\ e.ret = [status |-> "error", message |-> "not found"]
              /\ ~e.invoked
        /\ (e.invoked /\ e.outcome.raises) =>
              e.ret = [status |-> "error", message |-> "exception"]

\* C10 witness: one run dispatched an unknown skill, a skill whose
\* collaborator raised and a skill that succeeded.
C10_Witness ==
    /\ \E e \in Range(bridge_log) : e.skill \notin SkillMap
    /\ \E e \in Range(bridge_log) : e.invoked /\ e.outcome.raises
    /\ \E e \in Range(bridge_log) : e.ret.status = "success"

\* The merge stage of the graph has completed.
Merged == engine = "graph" /\ pc["merge"] = "done"

C11_Frozen ==
    /\ Merged => Len(top_candidates) <= TopN
    /\ (Merged /\ status = "reported") => GenesOf(final_report) = Range(top_candidates)
    /\ (engine = "agent" /\ status = "reported") =>
          /\ Len(final_candidates) <= TopN
          /\ lit_calls # <<>> => GenesOf(final_candidates) = Range(lit_calls[Len(lit_calls)])

\* C11: once merge has completed top_candidates has at most 20 members and
\* no later step changes it; the genes of the final report are exactly the
\* genes of top_candidates (in DiscoveryGraph: of the top-20 list handed to
\* the literature verification).
C11_TopCandidatesFrozen ==
    /\ []C11_Frozen
    /\ [][Merged => top_candidates' = top_candidates]_vars

\* C11 witness: a report of 20 genes out of more fused candidates, in an
\* order that differs from top_candidates.
C11_Witness ==
    /\ Merged /\ status = "reported"
    /\ Len(merged_candidates) > TopN
    /\ Len(final_report) = TopN
    /\ [i \in 1..Len(final_report) |-> final_report[i].Gene] # top_candidates

\* Non-increasing scores, equal scores in ascending (up) or descending id order.
OrderedById(list, up) ==
    \A i, j \in 1..Len(list) :
        i < j =>
            /\ list[i].Score >= list[j].Score
            /\ list[i].Score = list[j].Score =>
                  IF up THEN list[i].Gene < list[j].Gene
                  ELSE list[i].Gene > list[j].Gene

\* The list validate_and_rank returned to merge_node, while no later node
\* has re-scored its items.
RankedAtMerge ==
    IF Merged /\ pc["report"] # "done"
    THEN [i \in 1..Len(merged_candidates) |-> merged_candidates[i].data]
    ELSE <<>>

\* C12: the list validate_and_rank returns and the final report are in
\* non-increasing order of score, and candidates of equal score are in the
\* order of their ids (one direction for all of them).
C12_SortedTiesById ==
    engine = "graph" =>
        \E up \in BOOLEAN :
            /\ OrderedById(RankedAtMerge, up)
            /\ status = "reported" => OrderedById(final_report, up)

\* The entries of a candidates dict, without their position.
EntriesOf(candidates) == {candidates[i] : i \in 1..Len(candidates)}

\* C13: in whatever order the records of the two branches are registered,
\* the candidates dict holds the same genes and, per gene, the same sources,
\* kg_hypothesis, fact list, omics snapshot and omics summary as in the
\* order validate_and_rank uses.
C13_EntriesOrderIndependent ==
    h_pc = "ranked" => EntriesOf(h_cands) = EntriesOf(CodeOrderCandidates(h_td, h_bu))

\* The positions of the bridge log that dispatched check_literature.
LitDispatches == {i \in 1..Len(bridge_log) : bridge_log[i].skill = "check_literature"}

\* C14: the literature verification is called at most once per run and only
\* after fusion: in the graph after merge_node, with top_candidates; in
\* DiscoveryGraph only by node_synthesize, never by node_execute, which
\* records a check_literature step of the plan as deferred.
C14_LiteratureAfterFusion ==
    /\ Len(lit_calls) <= 1
    /\ (engine = "graph" /\ lit_calls # <<>>) =>
          Merged /\ lit_calls[1] = top_candidates
    /\ engine = "agent" =>
          /\ Cardinality(LitDispatches) <= 1
          /\ (LitDispatches # {} \/ lit_calls # <<>>) => a_pc = "done"
          /\ a_pc = "execute" =>
                \A i \in 1..Len(a_trace) :
                    a_trace[i].skill = "check_literature" => a_trace[i].deferred

\* C14 witness: a finished DiscoveryGraph run whose plan had a
\* check_literature step, recorded as deferred, with one literature call.
C14_Witness ==
    /\ engine = "agent" /\ a_pc = "done"
    /\ \E i \in 1..Len(plan) : plan[i].skill = "check_literature"
    /\ \E i \in 1..Len(execution_trace) : execution_trace[i].deferred
    /\ Len(lit_calls) = 1

\* The score a list gives a gene.
ScoreIn(list, g) == (CHOOSE it \in Items(list) : it.Gene = g).Score

\* The external-DB bonus of a gene.
ExternalOf(ot_scores, g) == IF HasKey(ot_scores, g) THEN ExternalBonus ELSE 0

\* Every reported score is the fused score plus the external bonus.
KeepsFusedScores(report, ranked, ot_scores) ==
    \A it \in Items(report) :
        it.Score = ScoreIn(ranked, it.Gene) + ExternalOf(ot_scores, it.Gene)

\* C15: when the literature verification raises (call_skill: returns an
\* error), the verdict map is empty, the run goes on to the report, and each
\* reported candidate has its fused score plus the external bonus, if any.
C15_LiteratureFailure ==
    /\ (engine = "graph" /\ "literature" \in raised) =>
          /\ literature_results = <<>>
          /\ status # "aborted"
          /\ pc["report"] \in {"ready", "done"}
          /\ status = "reported" =>
                KeepsFusedScores(final_report,
                                 ValidateAndRank(kg_results, omics_results),
                                 opentargets_results)
    /\ (engine = "agent" /\ "check_literature" \in raised) =>
          /\ status = "reported"
          /\ LET c == Classified(execution_trace)
             IN  KeepsFusedScores(final_candidates,
                                  ValidateAndRank(c.res_b, c.res_a), c.ot_data)

\* C15 witness: a reported graph run whose literature call raised, with a
\* candidate that has the external bonus.
C15_Witness ==
    /\ engine = "graph" /\ status = "reported"
    /\ "literature" \in raised
    /\ \E it \in Items(final_report) : HasKey(opentargets_results, it.Gene)

\* The gathering nodes of the graph.
Branches == {"omics", "kg", "opentargets"}

\* C16: when fusion produces no candidate the run ends with an empty
\* report, the literature tool is neither constructed nor called, and errors
\* holds only the entries of the gathering nodes that raised.
C16_EmptyPool ==
    /\ (Merged /\ merged_candidates = <<>>) =>
          /\ status \in {"running", "reported"}
          /\ status = "running" => NodeCanStep
          /\ status = "reported" => final_report = <<>>
          /\ lit_calls = <<>>
          /\ built["lit_tool"] = 0
          /\ raised \subseteq Branches
          /\ Len(errors) = Cardinality(raised)
    /\ (engine = "agent" /\ status = "reported" /\ final_candidates = <<>>) =>
          /\ lit_calls = <<>>
          /\ LitDispatches = {}

\* C16 witness: a reported graph run that gathered records, fused none and
\* reported none.
C16_Witness ==
    /\ Merged /\ status = "reported"
    /\ omics_results # <<>>
    /\ merged_candidates = <<>>
    /\ final_report = <<>>

\* The skills node_execute dispatches while gathering.
GatherSkills == SkillMap \ {"check_literature"}

\* A step in which the collaborator of a gathering unit raises.
UnitRaised == \E u \in Branches \cup GatherSkills : u \in raised' /\ u \notin raised

\* C17: when the collaborator of a gathering unit raises, the unit adds
\* nothing to the results, exactly one entry is appended to errors, the
\* results of the sibling units are untouched and the run goes on; for the
\* branch nodes of the graph and for the step loop of node_execute alike.
C17_FailureIsolated ==
    [][UnitRaised =>
          /\ Len(errors') = Len(errors) + 1
          /\ status' = "running"
          /\ omics_results' = omics_results
          /\ kg_results' = kg_results
          /\ opentargets_results' = opentargets_results
          /\ a_trace' = a_trace]_vars

\* The part of C17 that the graph nodes do satisfy.
C17_GraphBranches ==
    [][(engine = "graph" /\ UnitRaised) =>
          /\ Len(errors') = Len(errors) + 1
          /\ status' = "running"
          /\ omics_results' = omics_results
          /\ kg_results' = kg_results
          /\ opentargets_results' = opentargets_results]_vars

\* C18: a gathering branch that does not return is treated as a failed
\* branch (empty result and one errors entry) and never blocks the run: with
\* the kg call not returning, the run has reported with the errors entry of
\* the branch, or one of its nodes can still step.
C18_BlockedBranchTimesOut ==
    (engine = "graph" /\ pc["kg"] = "blocked") =>
        \/ status = "running" /\ NodeCanStep
        \/ status = "reported" /\ kg_results = <<>> /\ "KG error" \in Range(errors)

\* A step of merge_node.
MergeStep == pc["merge"] = "wait" /\ pc'["merge"] = "done"

C20_DeferredArgsKept ==
    (engine = "agent" /\ status = "reported") =>
        \A i \in 1..Len(execution_trace) :
            execution_trace[i].deferred =>
                \A j \in LitDispatches :
                    /\ bridge_log[j].args.genes = lit_calls[Len(lit_calls)]
                    /\ execution_trace[i].args.mode # "none" =>
                          bridge_log[j].args.mode = execution_trace[i].args.mode

\* C21: state updates are reduced, not overwritten.  After a node return is
\* applied, the keys of the map are those of the old map and of the update,
\* a key of the update carries the update's value and every other key keeps
\* its old value; the errors list is the old list followed by the returned
\* entries in their order.
C21_Reduced ==
    [][(engine = "reducer" /\ bridge_log' # <<>>) =>
          LET right == bridge_log'[1].ret
              errs == bridge_log'[1].errs
          IN  /\ Keys(omics_results') = Keys(omics_results) \cup Keys(right)
              /\ \A i, j \in 1..Len(omics_results') :
                    omics_results'[i].gene = omics_results'[j].gene => i = j
              /\ \A g \in Keys(right) :
                    DictGet(omics_results', g) = DictGet(right, g)
              /\ \A g \in Keys(omics_results) \ Keys(right) :
                    DictGet(omics_results', g) = DictGet(omics_results, g)
              /\ Len(errors') = Len(errors) + Len(errs)
              /\ \A i \in 1..Len(errors) : errors'[i] = errors[i]
              /\ \A i \in 1..Len(errs) : errors'[Len(errors) + i] = errs[i]]_vars

\* C21 witness: an update was applied to a map holding a key the update does
\* not name, and a return of two different errors entries was appended to a
\* non-empty errors list.
C21_Witness ==
    /\ engine = "reducer" /\ bridge_log # <<>>
    /\ bridge_log[1].ret # <<>>
    /\ Keys(omics_results) \ Keys(bridge_log[1].ret) # {}
    /\ Len(bridge_log[1].errs) = 2
    /\ bridge_log[1].errs[1] # bridge_log[1].errs[2]
    /\ errors[1] = "e0"

\* The literature bonus a reported item carries.
LitBonusOf(it) ==
    IF it.Literature_Evidence # <<>> THEN SupportBonus(it.Literature_Evidence[1]) ELSE 0

\* The external bonus the scoring rule grants: only for a score above 0.
PositiveExternalOf(ot_scores, g) ==
    IF HasKey(ot_scores, g) /\ DictGet(ot_scores, g) > 0 THEN ExternalBonus ELSE 0

ScoredByRule(report, ranked, ot_scores) ==
    \A it \in Items(report) :
        it.Score = ScoreIn(ranked, it.Gene) + LitBonusOf(it)
                       + PositiveExternalOf(ot_scores, it.Gene)

\* C22: the external-DB bonus is added only when the candidate's external
\* score is greater than 0; a candidate whose external record has score 0
\* gets no bonus.
C22_ExternalBonusOnlyPositive ==
    /\ (engine = "graph" /\ status = "reported") =>
          ScoredByRule(final_report, ValidateAndRank(kg_results, omics_results),
                       opentargets_results)
    /\ (engine = "agent" /\ status = "reported") =>
          LET c == Classified(execution_trace)
          IN  ScoredByRule(final_candidates, ValidateAndRank(c.res_b, c.res_a),
                           c.ot_data)

\* What the code does: the bonus goes to every candidate that has an
\* external record, whatever its score.
C22_BonusForAnyRecord ==
    /\ (engine = "graph" /\ status = "reported") =>
          \A it \in Items(final_report) :
              it.Score = ScoreIn(ValidateAndRank(kg_results, omics_results), it.Gene)
                             + LitBonusOf(it) + ExternalOf(opentargets_results, it.Gene)
    /\ (engine = "agent" /\ status = "reported") =>
          LET c == Classified(execution_trace)
          IN  \A it \in Items(final_candidates) :
                  it.Score = ScoreIn(ValidateAndRank(c.res_b, c.res_a), it.Gene)
                                 + LitBonusOf(it) + ExternalOf(c.ot_data, it.Gene)

\* C23: external-DB data never originates a candidate: every id in
\* merged_candidates, top_candidates and the final report is an id of the
\* bottom-up or of the top-down results.
C23_ExternalNeverOriginates ==
    /\ engine = "graph" =>
          Keys(merged_candidates) \cup Range(top_candidates) \cup GenesOf(final_report)
              \subseteq Keys(omics_results) \cup Keys(kg_results)
    /\ engine = "agent" =>
          LET c == Classified(execution_trace)
          IN  GenesOf(final_candidates) \subseteq Keys(c.res_a) \cup Keys(c.res_b)

\* C23 witness: a reported graph run with candidates whose external results
\* hold an id that neither branch returned.
C23_Witness ==
    /\ engine = "graph" /\ status = "reported"
    /\ final_report # <<>>
    /\ Keys(opentargets_results) \ (Keys(omics_results) \cup Keys(kg_results)) # {}

Reverse(list) == [i \in 1..Len(list) |-> list[Len(list) + 1 - i]]

\* The bonus the verdict-injection policy names for a gene.
PolicyBonus(lit, g) ==
    IF ~HasKey(lit, g) THEN 0
    ELSE IF DictGet(lit, g).level \cap {"strong", "high"} # {} THEN StrongBonus
    ELSE IF DictGet(lit, g).level = {"medium"} THEN MediumBonus
    ELSE 0

\* C24: attach_literature_evidence adds exactly 3.0 for a strong or high
\* verdict, exactly 1.0 for a medium one and nothing for any other verdict
\* or for a candidate without verdict, and the scores are the same when the
\* candidates and the verdict entries come in the opposite order.
C24_LiteratureBonus ==
    (h_pc = "attached" /\ h_attached = 1) =>
        LET ranked == ValidateAndRank(h_td, h_bu)
        IN  /\ GenesOf(h_once) = GenesOf(ranked)
            /\ Len(h_once) = Len(ranked)
            /\ \A it \in Items(h_once) :
                  it.Score = ScoreIn(ranked, it.Gene) + PolicyBonus(h_lit, it.Gene)
            /\ ScoresOf(AttachLiteratureEvidence(Reverse(ranked), Reverse(h_lit)))
                   = ScoresOf(h_once)

\* C24 witness: one application gave a Consensus candidate the strong bonus
\* while another candidate had no verdict.
C24_Witness ==
    /\ h_pc = "attached" /\ h_attached = 1
    /\ \E a, b \in Items(h_once) :
          /\ a.Tier = Tier1
          /\ HasKey(h_lit, a.Gene)
          /\ "strong" \in DictGet(h_lit, a.Gene).level
          /\ a.Score = ScoreIn(ValidateAndRank(h_td, h_bu), a.Gene) + StrongBonus
          /\ ~HasKey(h_lit, b.Gene)

NoFactTwice(facts) == \A i, j \in 1..Len(facts) : facts[i] = facts[j] => i = j

\* The records the fold has applied so far.
HApplied == (Triples(h_td, SrcTD) \cup Triples(h_bu, SrcBU)) \ h_pending

\* Registering again a record already applied adds no fact and no source.
C25_SecondMergeAddsNothing ==
    (engine = "harness" /\ h_pc = "fold") =>
        \A t \in HApplied :
            ~t.data.is_known =>
                LET before == DictGet(h_cands, t.gene)
                    after == DictGet(Register(h_cands, t.gene, t.source, t.data), t.gene)
                IN  /\ after.kg_raw_facts = before.kg_raw_facts
                    /\ after.evidence_sources = before.evidence_sources

\* C25: after fusion no candidate's raw fact list holds a fact twice,
\* whatever fact lists the records carry, and merging a record of the same
\* source for the same candidate again adds no fact and no source.
C25_FactsDeduplicated ==
    /\ (engine = "harness" /\ h_pc = "ranked") =>
          \A it \in Items(h_list) : NoFactTwice(it.Raw_Evidence.kg_raw_facts)
    /\ C25_SecondMergeAddsNothing

\* has_data_steps of should_run_paths, negated.
NoGatheringStep ==
    ~HasStep(plan_steps, {"run_omics_path", "run_kg_path", "run_validation"})

\* No collaborator of a gathering branch was constructed or called, nothing
\* failed, the branch results are empty and the run ends with an empty report.
RunsAsNoOp ==
    /\ built["explorer"] = 0 /\ built["ot_tool"] = 0
    /\ \A nd \in Branches : pc[nd] \in {"ready", "done"}
    /\ omics_results = <<>> /\ kg_results = <<>> /\ opentargets_results = <<>>
    /\ merged_candidates = <<>> /\ top_candidates = <<>>
    /\ errors = <<>> /\ raised = {}
    /\ status \in {"running", "reported"}
    /\ status = "running" => NodeCanStep
    /\ status = "reported" => Merged /\ final_report = <<>>

\* C26: if the plan contains no run_omics_path, run_kg_path or
\* run_validation step, no gathering collaborator is invoked, the merge runs
\* on empty branch results, nothing is appended to errors and the run ends
\* normally with an empty report.
C26_NoGatheringNoOp ==
    (engine = "graph" /\ pc["planner"] = "done" /\ NoGatheringStep) => RunsAsNoOp

\* What the nodes do guarantee: the same for a plan that has no
\* check_external step either.
C26_NoBranchStepNoOp ==
    (engine = "graph" /\ pc["planner"] = "done" /\ NoGatheringStep
         /\ ~HasStep(plan_steps, {"check_external"})) => RunsAsNoOp

\* The case-normalized symbol of an id.
Canonical(g) == IF g < 0 THEN 0 - g ELSE g

\* C27: candidate identity is the case-normalized gene symbol: the fusion
\* output never holds two ids equal up to letter case, and a gene that both
\* branches report, in whatever case, receives the Consensus tier.
C27_CaseNormalizedIdentity ==
    (engine = "harness" /\ h_pc = "ranked") =>
        /\ \A i, j \in 1..Len(h_list) :
              Canonical(h_list[i].Gene) = Canonical(h_list[j].Gene) => i = j
        /\ \A it \in Items(h_list) :
              (/\ \E r \in Items(h_td) :
                     Canonical(r.gene) = Canonical(it.Gene) /\ ~r.data.is_known
               /\ \E r \in Items(h_bu) :
                     Canonical(r.gene) = Canonical(it.Gene) /\ ~r.data.is_known)
                  => it.Tier = Tier1

\* What the code does: identity is the symbol exactly as spelled.
C27_ExactIdentity ==
    (engine = "harness" /\ h_pc = "ranked") =>
        /\ \A i, j \in 1..Len(h_list) : h_list[i].Gene = h_list[j].Gene => i = j
        /\ \A it \in Items(h_list) :
              (/\ \E r \in Items(h_td) : r.gene = it.Gene /\ ~r.data.is_known
               /\ \E r \in Items(h_bu) : r.gene = it.Gene /\ ~r.data.is_known)
                  <=> it.Tier = Tier1

\* C28: each lazily-created tool singleton is constructed at most once, also
\* when omics_node and kg_node both call get_explorer before either has
\* stored the instance.
C28_SingletonOnce ==
    engine = "graph" => \A t \in Tools : built[t] <= 1

\* C29: merge_node is the only writer of the merged pool: once merged, and
\* after the literature and report stages, every entry of merged_candidates,
\* its Score included, is what merge_node produced.
C29_MergedUntouched ==
    Merged => merged_candidates = MergedOf(ValidateAndRank(kg_results, omics_results))

\* The ids of the records the successful bottom-up steps of a trace returned.
BottomUpIds(trace) ==
    UNION {Keys(trace[i].data) :
              i \in {j \in 1..Len(trace) :
                        /\ ~trace[j].deferred
                        /\ trace[j].skill \in {"run_omics_path", "run_validation"}}}

\* C30: the bottom-up input node_synthesize hands to fusion holds the
\* records of every successful run_omics_path and run_validation step of
\* the trace, whatever the order of the steps in the plan.
C30_BottomUpInputComplete ==
    (engine = "agent" /\ a_pc \in {"synthesize", "done"}) =>
        Keys(Classified(execution_trace).res_a) = BottomUpIds(execution_trace)

====
